---- MODULE Spec2Model ----
(***************************************************************************)
(* report-news: a sequential pipeline                                      *)
(*   main.py                      load config -> collect -> summarize ->   *)
(*                                generate report                          *)
(*   collector/gemini_search.py   per tool, per query search + parse,      *)
(*                                url de-duplication, per-tool cap         *)
(*   summarizer/claude_summarizer.py  batches of 10, merge by id           *)
(*   publisher/html_generator.py  group by tool, write reports, index      *)
(*                                                                         *)
(* The two language-model services are the environment: every request      *)
(* draws its response nondeterministically from a bounded set.             *)
(***************************************************************************)
EXTENDS Integers, Sequences, FiniteSets, TLC

VARIABLES
    pc,             \* position of main(): start, loaded, collect, search,
                    \*   summarize, batch, render, done
    exit_code,      \* process exit status, -1 while running
    dry_run,        \* args.dry_run
    config_file,    \* what load_config finds on disk
    gemini_key,     \* GEMINI_API_KEY is set
    anthropic_key,  \* ANTHROPIC_API_KEY is set
    tool_configs,   \* main: tool_configs
    max_results,    \* search.max_results_per_tool
    ti,             \* collect_all_news: index of the current config
    qi,             \* search_tool_news: index of the next query
    tool_items,     \* search_tool_news: news_items
    all_news,       \* collect_all_news: all_news
    returned,       \* history: the list each search_tool_news call returned
    queried,        \* history: every search request issued, and whether an
                    \*   error was logged for it
    last_response,  \* history: the response to the last request of this call
    query_results,  \* history: what each query of this call returned
    news_items,     \* main: news_items (objects shared with the summarizer)
    bi,             \* summarize_and_categorize: start index i of the batch
    processed_items,\* summarize_and_categorize: processed_items
    originals,      \* history: news_items as handed to the summarizer
    batches,        \* history: start, length and response kind of every
                    \*   batch requested
    last_summary,   \* history: the response to the last summarization request
    dir_exists,     \* output directory exists
    files,          \* names of the files in the output directory
    index,          \* dates listed by index.html, in page order
    index_written,  \* index.html exists
    news_by_tool,   \* generate_report: the groups handed to the template
    counts,         \* generate_report: total_count, critical_count, tools_count
    n_writes,       \* history: files written by this run
    runs            \* history: completed report generations

vars == <<pc, exit_code, dry_run, config_file, gemini_key, anthropic_key,
          tool_configs, max_results, ti, qi, tool_items, all_news, returned,
          queried, last_response, query_results, news_items, bi,
          processed_items, originals, batches, last_summary, dir_exists,
          files, index, index_written, news_by_tool, counts, n_writes,
          runs>>

collectorVars == <<ti, qi, tool_items, all_news, returned, queried,
                   last_response, query_results>>
summarizerVars == <<bi, processed_items, originals, batches, last_summary>>
rendererVars == <<dir_exists, files, index, index_written, news_by_tool,
                  counts, n_writes, runs>>
envVars == <<dry_run, config_file, gemini_key, anthropic_key>>

----------------------------------------------------------------------------
(* Generic helpers *)

Min(a, b) == IF a <= b THEN a ELSE b

SeqsUpTo(S, n) == UNION {[1..k -> S] : k \in 0..n}

\* Python's s[:n] for n >= 0
FirstN(s, n) == SubSeq(s, 1, Min(n, Len(s)))

Range(s) == {s[i] : i \in DOMAIN s}

----------------------------------------------------------------------------
(* models/news_item.py *)

ImportanceValues == {"critical", "high", "medium", "low"}

CategoryValues == {"release", "feature", "update", "bugfix", "security",
                   "documentation", "announcement", "other"}

\* NewsItem(...) as _parse_response constructs it: the enrichment fields take
\* the dataclass defaults.
NewsItem(title, url, tool_name, published_at) ==
    [title |-> title, url |-> url, tool_name |-> tool_name,
     source |-> "gemini_search", published_at |-> published_at,
     content |-> "", summary_ja |-> "", summary_en |-> "",
     importance |-> "medium", category |-> "other", tags |-> <<>>]

----------------------------------------------------------------------------
(* collector/gemini_search.py *)

\* Bound: entries in one response array.
MaxEntries == 2

\* Bound: values of search.max_results_per_tool are 1..MaxResults.
MaxResults == 2

\* A published_date that is JSON but not a string (a number).
NonStringDate == "20240501 (number)"

\* One element of the JSON array a search response carries.  title and url
\* are "" when the key is absent, null or empty (item.get(...) is falsy);
\* published_date is "" when absent, a string in %Y-%m-%d form, a string in
\* another form, or not a string.  is_object is FALSE for an element that is
\* not a JSON object (a string, a number).
Entry(is_object, title, url, published_date) ==
    [is_object |-> is_object, title |-> title, url |-> url,
     published_date |-> published_date]

Entries ==
    { Entry(TRUE, "T1", "u1", "2024-05-01"),
      Entry(TRUE, "T2", "u1", "May 1st"),
      Entry(TRUE, "T1", "u2", ""),
      Entry(TRUE, "T2", "u3", "2024-05-01"),
      Entry(TRUE, "", "u2", "2024-05-01"),
      Entry(TRUE, "T2", "", ""),
      Entry(TRUE, "T2", "u2", NonStringDate),
      Entry(FALSE, "", "", "") }

\* What generate_content can give back: an exception, a response without
\* text, text that is not JSON, or JSON (fenced or raw): an array of entries,
\* or a single value that is not an array.
Response(kind, is_list, value) ==
    [kind |-> kind, is_list |-> is_list, value |-> value]

NoResponse == Response("none", TRUE, <<>>)

Responses ==
    { Response(k, TRUE, <<>>) : k \in {"api_error", "no_text", "bad_json"} }
    \cup { Response("json", TRUE, v) : v \in SeqsUpTo(Entries, MaxEntries) }
    \cup { Response("json", FALSE, <<e>>) : e \in Entries }

\* datetime.strptime(d, "%Y-%m-%d") accepts d
MatchesDateFormat(d) == d = "2024-05-01"

\* _parse_response, lines 133-155: the loop over the decoded items.  raised
\* is TRUE when an exception other than JSONDecodeError leaves the loop:
\* item.get on a non-object (AttributeError), strptime on a non-string
\* (TypeError; only ValueError is caught at line 143).
RECURSIVE ParseItems(_, _, _)
ParseItems(items, tool_name, acc) ==
    IF items = <<>> THEN [raised |-> FALSE, items |-> acc]
    ELSE LET item == Head(items) IN
         IF ~item.is_object THEN [raised |-> TRUE, items |-> acc]
         ELSE IF item.title = "" \/ item.url = ""
              THEN ParseItems(Tail(items), tool_name, acc)
         ELSE IF item.published_date # ""
                 /\ item.published_date = NonStringDate
              THEN [raised |-> TRUE, items |-> acc]
         ELSE LET published_at ==
                      IF item.published_date # ""
                         /\ MatchesDateFormat(item.published_date)
                      THEN item.published_date
                      ELSE "None"
              IN ParseItems(Tail(items), tool_name,
                            Append(acc, NewsItem(item.title, item.url,
                                                 tool_name, published_at)))

\* _parse_response, lines 105-160
ParseResponse(response, tool_name) ==
    IF response.kind = "no_text" THEN [raised |-> FALSE, items |-> <<>>]
    ELSE IF response.kind = "bad_json"
         THEN [raised |-> FALSE, items |-> <<>>]
    ELSE LET items == IF response.is_list THEN response.value
                      ELSE <<response.value[1]>>
         IN ParseItems(items, tool_name, <<>>)

\* _search_and_parse with `except Exception: return partial` in place of
\* `return []`
SearchAndParse_Partial(response, tool_name) ==
    IF response.kind = "api_error" THEN <<>>
    ELSE ParseResponse(response, tool_name).items

\* _search_and_parse, lines 93-103: any exception gives []
SearchAndParse(response, tool_name) ==
    IF response.kind = "api_error" THEN <<>>
    ELSE LET r == ParseResponse(response, tool_name)
         IN IF r.raised THEN <<>> ELSE r.items

\* search_tool_news, lines 48-53: the de-duplication loop
RECURSIVE UniqueLoop(_, _, _)
UniqueLoop(items, seen_urls, unique_items) ==
    IF items = <<>> THEN unique_items
    ELSE LET item == Head(items) IN
         IF item.url \notin seen_urls
         THEN UniqueLoop(Tail(items), seen_urls \cup {item.url},
                         Append(unique_items, item))
         ELSE UniqueLoop(Tail(items), seen_urls, unique_items)

\* the loop keeping the last item seen for a url
RECURSIVE UniqueItems_LastWins(_)
UniqueItems_LastWins(items) ==
    IF items = <<>> THEN <<>>
    ELSE IF \E j \in 2..Len(items) : items[j].url = Head(items).url
         THEN UniqueItems_LastWins(Tail(items))
         ELSE <<Head(items)>> \o UniqueItems_LastWins(Tail(items))

\* no de-duplication at all
UniqueItems_None(items) == items

UniqueItems(items) == UniqueLoop(items, {}, <<>>)

\* search_tool_news, line 55
ToolNews(items, max) == FirstN(UniqueItems(items), max)

\* ToolConfig: the fields collection reads
ToolConfig(name, search_queries) ==
    [name |-> name, search_queries |-> search_queries]

ToolConfigLists ==
    { <<>>,
      <<ToolConfig("A", <<"a1", "a2">>)>>,
      <<ToolConfig("A", <<"a1">>), ToolConfig("B", <<"b1">>)>>,
      <<ToolConfig("A", <<>>), ToolConfig("B", <<"b1">>)>>,
      <<ToolConfig("A", <<"a1", "a2">>), ToolConfig("B", <<"b1">>)>> }

\* collect_all_news, lines 173-179: the next config's search_tool_news call
\* begins (lines 32-33)
CallSearchToolNews ==
    /\ pc = "collect"
    /\ ti <= Len(tool_configs)
    /\ pc' = "search"
    /\ qi' = 1
    /\ tool_items' = <<>>
    /\ last_response' = NoResponse
    /\ query_results' = <<>>
    /\ UNCHANGED <<exit_code, envVars, tool_configs, max_results, ti,
                   all_news, returned, queried, news_items, summarizerVars,
                   rendererVars>>

\* _search_and_parse and _parse_response: an error is printed for the request
\* (line 102 or line 158)
ErrorLogged(response, tool_name) ==
    \/ response.kind \in {"api_error", "bad_json"}
    \/ /\ response.kind = "json"
       /\ ParseResponse(response, tool_name).raised

\* search_tool_news, lines 35-45: one query, its response drawn from R
SearchQuery(R) ==
    /\ pc = "search"
    /\ qi <= Len(tool_configs[ti].search_queries)
    /\ \E response \in R :
         LET items == SearchAndParse(response, tool_configs[ti].name) IN
         /\ tool_items' = tool_items \o items
         /\ last_response' = response
         /\ query_results' = Append(query_results, items)
         /\ queried' = Append(queried,
                [tool |-> ti, query |-> tool_configs[ti].search_queries[qi],
                 failed |-> ErrorLogged(response, tool_configs[ti].name)])
    /\ qi' = qi + 1
    /\ UNCHANGED <<pc, exit_code, envVars, tool_configs, max_results, ti,
                   all_news, returned, news_items, summarizerVars,
                   rendererVars>>

\* search_tool_news, lines 47-55, and collect_all_news, line 180
ReturnToolNews ==
    /\ pc = "search"
    /\ qi > Len(tool_configs[ti].search_queries)
    /\ LET news == ToolNews(tool_items, max_results) IN
         /\ returned' = Append(returned, news)
         /\ all_news' = all_news \o news
    /\ ti' = ti + 1
    /\ pc' = "collect"
    /\ UNCHANGED <<exit_code, envVars, tool_configs, max_results, qi,
                   tool_items, queried, last_response, query_results,
                   news_items, summarizerVars, rendererVars>>

\* collect_all_news, line 183, and main, line 94
ReturnAllNews ==
    /\ pc = "collect"
    /\ ti > Len(tool_configs)
    /\ news_items' = all_news
    /\ pc' = "summarize"
    /\ UNCHANGED <<exit_code, envVars, tool_configs, max_results,
                   collectorVars, summarizerVars, rendererVars>>

----------------------------------------------------------------------------
(* summarizer/claude_summarizer.py *)

\* summarize_and_categorize, line 32
batch_size == 10

\* Bound: results in one summarization response.
MaxSummaryResults == 2

\* Bound: items handed to the summarizer.
MaxItems == 12

\* One element of the JSON array a summarization response carries.  keys is
\* the set of keys the object has; a field whose key is absent is never read.
Result(keys, id, summary_ja, summary_en, importance, category, tags) ==
    [keys |-> keys, id |-> id, summary_ja |-> summary_ja,
     summary_en |-> summary_en, importance |-> importance,
     category |-> category, tags |-> tags]

AllKeys == {"id", "summary_ja", "summary_en", "importance", "category", "tags"}

Full(id) == Result(AllKeys, id, "JA", "EN", "high", "release", <<"t">>)
Sparse(id) == Result({"id"}, id, "", "", "", "", <<>>)
BadImportance(id) == Result(AllKeys, id, "JA", "EN", "urgent", "release", <<"t">>)
BadCategory(id) == Result(AllKeys, id, "JA", "EN", "high", "bogus", <<"t">>)
NoId == Result(AllKeys \ {"id"}, 0, "JA", "EN", "high", "release", <<"t">>)

\* ids 0 and 1 are positions of a batch; 10 is a position of no batch
Results ==
    { Full(0), Full(1), Full(10), Sparse(1), BadImportance(0),
      BadImportance(1), BadCategory(1), NoId }

\* What messages.create can give back: an exception, text that is not JSON,
\* or JSON (fenced or raw): an array of results, or a single value.
NoSummary == Response("none", TRUE, <<>>)

Summaries ==
    { Response(k, TRUE, <<>>) : k \in {"api_error", "bad_json"} }
    \cup { Response("json", TRUE, v) : v \in SeqsUpTo(Results, MaxSummaryResults) }
    \cup { Response("json", FALSE, <<r>>) : r \in Results }

\* r.get(key, default)
Get(r, key, default) == IF key \in r.keys THEN r[key] ELSE default

\* _parse_response, line 127: {r["id"]: r for r in results}; a later result
\* replaces an earlier one with the same id.  Defined when every r has an id.
ResultMap(results) ==
    [id \in {results[k].id : k \in DOMAIN results} |->
        LET last == CHOOSE k \in DOMAIN results :
                        /\ results[k].id = id
                        /\ \A j \in DOMAIN results :
                               results[j].id = id => j <= k
        IN results[last]]

\* the merge touching nothing
MergeItem_Skip(item, r) == [raised |-> FALSE, item |-> item]

\* _parse_response, lines 130-135: the five assignments to one item, in
\* order; Importance(...) and Category(...) raise ValueError on a string that
\* is no member, leaving the assignments before them done.
MergeItem(item, r) ==
    LET a == [item EXCEPT !.summary_ja = Get(r, "summary_ja", ""),
                          !.summary_en = Get(r, "summary_en", "")]
        imp == Get(r, "importance", "medium")
        cat == Get(r, "category", "other")
    IN IF imp \notin ImportanceValues THEN [raised |-> TRUE, item |-> a]
       ELSE LET b == [a EXCEPT !.importance = imp] IN
            IF cat \notin CategoryValues THEN [raised |-> TRUE, item |-> b]
            ELSE [raised |-> FALSE,
                  item |-> [b EXCEPT !.category = cat,
                                     !.tags = Get(r, "tags", <<>>)]]

\* _parse_response, lines 128-135: the loop over original_items from idx
\* (0-based) on; the items are objects, so what was assigned before an
\* exception stays assigned.
RECURSIVE MergeLoop(_, _, _)
MergeLoop(items, result_map, idx) ==
    IF idx >= Len(items) THEN [raised |-> FALSE, items |-> items]
    ELSE IF idx \in DOMAIN result_map
         THEN LET m == MergeItem(items[idx + 1], result_map[idx])
                  merged == [items EXCEPT ![idx + 1] = m.item]
              IN IF m.raised THEN [raised |-> TRUE, items |-> merged]
                 ELSE MergeLoop(merged, result_map, idx + 1)
         ELSE MergeLoop(items, result_map, idx + 1)

\* _parse_response, lines 121-140, on decodable JSON
MergeResults(results, original_items) ==
    IF \E k \in DOMAIN results : "id" \notin results[k].keys
    THEN [raised |-> TRUE, items |-> original_items]
    ELSE MergeLoop(original_items, ResultMap(results), 0)

\* the error paths marking the items instead of leaving them alone
BatchAfter_MarksFailed(response, batch) ==
    IF response.kind \in {"api_error", "bad_json"}
    THEN [k \in DOMAIN batch |-> [batch[k] EXCEPT !.summary_ja = "(error)"]]
    ELSE LET results == IF response.is_list THEN response.value
                        ELSE <<response.value[1]>>
         IN MergeResults(results, batch).items

\* _process_batch, lines 94-104, with _parse_response: the state of the
\* batch's objects afterwards.  Every path returns the same list of the same
\* objects.
BatchAfter(response, batch) ==
    IF response.kind = "api_error" THEN batch
    ELSE IF response.kind = "bad_json" THEN batch
    ELSE LET results == IF response.is_list THEN response.value
                        ELSE <<response.value[1]>>
         IN MergeResults(results, batch).items

\* batches sharing an item with their predecessor
NextBatchStart_Overlap(i) == i + batch_size - 1

\* summarize_and_categorize, line 35: the next i
NextBatchStart(i) == i + batch_size

\* main, lines 106-107; summarize_news, line 148; summarize_and_categorize,
\* lines 28-33.  Without ANTHROPIC_API_KEY the constructor raises and the
\* process ends with a traceback.
BeginSummarize ==
    /\ pc = "summarize"
    /\ news_items # <<>>
    /\ IF anthropic_key
       THEN /\ pc' = "batch"
            /\ bi' = 0
            /\ processed_items' = <<>>
            /\ originals' = news_items
            /\ batches' = <<>>
            /\ UNCHANGED exit_code
       ELSE /\ pc' = "done"
            /\ exit_code' = 1
            /\ UNCHANGED <<bi, processed_items, originals, batches>>
    /\ UNCHANGED <<envVars, tool_configs, max_results, collectorVars,
                   news_items, last_summary, rendererVars>>

\* an empty list ending the run as an error
SkipSummarize_Error ==
    /\ pc = "summarize"
    /\ news_items = <<>>
    /\ pc' = "done"
    /\ exit_code' = 1
    /\ UNCHANGED <<envVars, tool_configs, max_results, collectorVars,
                   news_items, summarizerVars, rendererVars>>

\* main, line 106: an empty list is not summarized
SkipSummarize ==
    /\ pc = "summarize"
    /\ news_items = <<>>
    /\ pc' = "render"
    /\ UNCHANGED <<exit_code, envVars, tool_configs, max_results,
                   collectorVars, news_items, summarizerVars, rendererVars>>

\* summarize_and_categorize, lines 35-38: one batch, its response drawn from
\* S.  news_items holds the objects; processed_items refers to them by
\* position.
ProcessBatch(S) ==
    /\ pc = "batch"
    /\ bi < Len(news_items)
    /\ LET hi == Min(bi + batch_size, Len(news_items))
           batch == SubSeq(news_items, bi + 1, hi)
       IN /\ \E response \in S :
                LET after == BatchAfter(response, batch) IN
                /\ news_items' = [k \in DOMAIN news_items |->
                                     IF bi < k /\ k <= hi THEN after[k - bi]
                                     ELSE news_items[k]]
                /\ last_summary' = response
                /\ batches' = Append(batches,
                       [start |-> bi, len |-> hi - bi, kind |-> response.kind])
          /\ processed_items' = processed_items \o [k \in 1..(hi - bi) |-> bi + k]
    /\ bi' = NextBatchStart(bi)
    /\ UNCHANGED <<pc, exit_code, envVars, tool_configs, max_results,
                   collectorVars, originals, rendererVars>>

\* summarize_and_categorize, line 40, and main, line 107: news_items is
\* rebound to the processed list
ReturnSummarized ==
    /\ pc = "batch"
    /\ bi >= Len(news_items)
    /\ news_items' = [k \in DOMAIN processed_items |->
                         news_items[processed_items[k]]]
    /\ pc' = "render"
    /\ UNCHANGED <<exit_code, envVars, tool_configs, max_results,
                   collectorVars, summarizerVars, rendererVars>>

----------------------------------------------------------------------------
(* publisher/html_generator.py *)

\* _update_index, line 136: reports[:30]
IndexLimit == 30

\* Bound: report generations in one behaviour.
MaxRuns == 2

\* Bound: reports already in the output directory at the start.
MaxPrior == 43

\* Bound: items in a list handed to generate_report directly.
MaxRenderItems == 4

\* Text is a sequence of one-character strings; Ord is the code point.
OrdTable ==
    [c \in {"-", ".", "0", "1", "2", "3", "4", "5", "6", "7", "8", "9", "_",
            "a", "e", "h", "j", "l", "m", "n", "t"} |->
        CASE c = "-" -> 45 [] c = "." -> 46 [] c = "0" -> 48 [] c = "1" -> 49
          [] c = "2" -> 50 [] c = "3" -> 51 [] c = "4" -> 52 [] c = "5" -> 53
          [] c = "6" -> 54 [] c = "7" -> 55 [] c = "8" -> 56 [] c = "9" -> 57
          [] c = "_" -> 95 [] c = "a" -> 97 [] c = "e" -> 101 [] c = "h" -> 104
          [] c = "j" -> 106 [] c = "l" -> 108 [] c = "m" -> 109
          [] c = "n" -> 110 [] c = "t" -> 116]

Ord(c) == OrdTable[c]

DigitChar(n) ==
    CASE n = 0 -> "0" [] n = 1 -> "1" [] n = 2 -> "2" [] n = 3 -> "3"
      [] n = 4 -> "4" [] n = 5 -> "5" [] n = 6 -> "6" [] n = 7 -> "7"
      [] n = 8 -> "8" [] n = 9 -> "9"

\* str comparison a < b: by code point at the first difference, a proper
\* prefix first
StrLess(a, b) ==
    \/ \E i \in 1..Min(Len(a), Len(b)) :
          /\ Ord(a[i]) < Ord(b[i])
          /\ \A j \in 1..(i - 1) : a[j] = b[j]
    \/ /\ Len(a) < Len(b)
       /\ \A j \in 1..Len(a) : a[j] = b[j]

\* A calendar day <<year, month, day>>.  Day(k) is the k-th day counted from
\* 2024-12-01, over December 2024 and January 2025.
Day(k) == IF k <= 31 THEN <<2024, 12, k>> ELSE <<2025, 1, k - 31>>

DateLess(d, e) ==
    \/ d[1] < e[1]
    \/ d[1] = e[1] /\ d[2] < e[2]
    \/ d[1] = e[1] /\ d[2] = e[2] /\ d[3] < e[3]

\* strftime's %m and %d
TwoDigits(n) == <<DigitChar(n \div 10), DigitChar(n % 10)>>

\* report.date.strftime("%Y-%m-%d"), line 43, for a four-digit year
StrfDate(d) ==
    <<DigitChar(d[1] \div 1000), DigitChar((d[1] \div 100) % 10),
      DigitChar((d[1] \div 10) % 10), DigitChar(d[1] % 10)>>
    \o <<"-">> \o TwoDigits(d[2]) \o <<"-">> \o TwoDigits(d[3])

LangChars(lang) == IF lang = "ja" THEN <<"j", "a">> ELSE <<"e", "n">>

\* _generate_single_report, line 98: f"{date_str}_{lang}.html"
ReportFileName(date_str, lang) ==
    date_str \o <<"_">> \o LangChars(lang) \o <<".", "h", "t", "m", "l">>

\* glob("*_ja.html"), line 127
MatchesJaGlob(name) ==
    /\ Len(name) >= 8
    /\ SubSeq(name, Len(name) - 7, Len(name))
         = <<"_", "j", "a", ".", "h", "t", "m", "l">>

\* file.stem, line 128: the name without its last suffix
Stem(name) == SubSeq(name, 1, Len(name) - 5)

\* str.replace("_ja", ""), line 128: every occurrence, left to right
RECURSIVE RemoveJa(_)
RemoveJa(s) ==
    IF Len(s) < 3 THEN s
    ELSE IF SubSeq(s, 1, 3) = <<"_", "j", "a">>
         THEN RemoveJa(SubSeq(s, 4, Len(s)))
         ELSE <<Head(s)>> \o RemoveJa(Tail(s))

\* sorted(...) without reverse=True
RECURSIVE SortLoop_Ascending(_, _)
SortLoop_Ascending(S, sorted) ==
    IF S = {} THEN sorted
    ELSE LET f == CHOOSE g \in S : TRUE
             before == Cardinality({i \in DOMAIN sorted :
                                        StrLess(sorted[i], f)})
         IN SortLoop_Ascending(S \ {f},
                SubSeq(sorted, 1, before) \o <<f>>
                \o SubSeq(sorted, before + 1, Len(sorted)))

SortedPaths_Ascending(S) == SortLoop_Ascending(S, <<>>)

\* sorted(..., reverse=True), line 127, as an insertion sort: each name goes
\* after the names greater than it
RECURSIVE SortLoop(_, _)
SortLoop(S, sorted) ==
    IF S = {} THEN sorted
    ELSE LET f == CHOOSE g \in S : TRUE
             before == Cardinality({i \in DOMAIN sorted :
                                        StrLess(f, sorted[i])})
         IN SortLoop(S \ {f},
                SubSeq(sorted, 1, before) \o <<f>>
                \o SubSeq(sorted, before + 1, Len(sorted)))

SortedPaths(S) == SortLoop(S, <<>>)

\* _update_index, lines 126-136: the dates the index page lists
IndexEntries(dir) ==
    LET sorted == SortedPaths({f \in dir : MatchesJaGlob(f)})
        reports == [i \in DOMAIN sorted |-> RemoveJa(Stem(sorted[i]))]
    IN FirstN(reports, IndexLimit)

\* a new tool's group put first
RECURSIVE GroupLoop_NewFirst(_, _)
GroupLoop_NewFirst(items, groups) ==
    IF items = <<>> THEN groups
    ELSE LET item == Head(items) IN
         IF \E p \in DOMAIN groups : groups[p].tool_name = item.tool_name
         THEN LET p == CHOOSE q \in DOMAIN groups :
                           groups[q].tool_name = item.tool_name
              IN GroupLoop_NewFirst(Tail(items),
                     [groups EXCEPT ![p].items = Append(@, item)])
         ELSE GroupLoop_NewFirst(Tail(items),
                  <<[tool_name |-> item.tool_name, items |-> <<item>>]>>
                  \o groups)

\* generate_report, lines 47-49: news_by_tool is a dict, which keeps its keys
\* in insertion order; here the sequence of its (key, list) pairs
RECURSIVE GroupLoop(_, _)
GroupLoop(items, groups) ==
    IF items = <<>> THEN groups
    ELSE LET item == Head(items) IN
         IF \E p \in DOMAIN groups : groups[p].tool_name = item.tool_name
         THEN LET p == CHOOSE q \in DOMAIN groups :
                           groups[q].tool_name = item.tool_name
              IN GroupLoop(Tail(items),
                           [groups EXCEPT ![p].items = Append(@, item)])
         ELSE GroupLoop(Tail(items),
                        Append(groups, [tool_name |-> item.tool_name,
                                        items |-> <<item>>]))

\* generate_report, lines 52-57
Counts(items, groups) ==
    [total_count |-> Len(items),
     critical_count |->
         Cardinality({i \in DOMAIN items :
                          items[i].importance \in {"critical", "high"}}),
     tools_count |-> Len(groups)]

\* generate_report, line 38
DefaultLanguages == <<"ja", "en">>

\* generate_report, lines 59-69: the directory after the reports are written
\* (write_text replaces a file of the same name)
DirAfterReports(dir, date_str, languages) ==
    dir \cup {ReportFileName(date_str, languages[i]) : i \in DOMAIN languages}

\* main, lines 113-128, with the helper generate_report and
\* HTMLReportGenerator.generate_report, lines 31-74: the report of the day
\* drawn from D
GenerateReport(D) ==
    /\ pc = "render"
    /\ \E date \in D :
         LET groups == GroupLoop(news_items, <<>>)
             dir == DirAfterReports(files, StrfDate(date), DefaultLanguages)
         IN /\ news_by_tool' = groups
            /\ counts' = Counts(news_items, groups)
            /\ files' = dir
            /\ index' = IndexEntries(dir)
    /\ dir_exists' = TRUE
    /\ index_written' = TRUE
    /\ n_writes' = n_writes + Len(DefaultLanguages) + 1
    /\ runs' = runs + 1
    /\ pc' = "done"
    /\ exit_code' = 0
    /\ UNCHANGED <<envVars, tool_configs, max_results, collectorVars,
                   news_items, summarizerVars>>

\* A later call of the helper generate_report, lines 227-247, on the same
\* output directory, its item list drawn from L
NextReport(L) ==
    /\ pc = "done"
    /\ exit_code = 0
    /\ runs < MaxRuns
    /\ \E items \in L : news_items' = items
    /\ pc' = "render"
    /\ exit_code' = -1
    /\ n_writes' = 0
    /\ UNCHANGED <<envVars, tool_configs, max_results, collectorVars,
                   summarizerVars, dir_exists, files, index, index_written,
                   news_by_tool, counts, runs>>

----------------------------------------------------------------------------
(* main.py *)

\* What load_config finds: no file, text that is not YAML, YAML that is not
\* a mapping (an empty file loads as None), or a mapping.
ConfigFile(kind, tools, max_results_per_tool) ==
    [kind |-> kind, tools |-> tools,
     max_results_per_tool |-> max_results_per_tool]

\* a file that is not YAML read as an empty config
LoadConfig_Lenient ==
    /\ pc = "start"
    /\ IF config_file.kind \in {"valid", "malformed"}
       THEN /\ tool_configs' = config_file.tools
            /\ pc' = "loaded"
            /\ UNCHANGED exit_code
       ELSE /\ pc' = "done"
            /\ exit_code' = 1
            /\ UNCHANGED tool_configs
    /\ UNCHANGED <<envVars, max_results, collectorVars, news_items,
                   summarizerVars, rendererVars>>

\* main, lines 67-81
LoadConfig ==
    /\ pc = "start"
    /\ IF config_file.kind = "valid"
       THEN /\ tool_configs' = config_file.tools
            /\ pc' = "loaded"
            /\ UNCHANGED exit_code
       ELSE /\ pc' = "done"
            /\ exit_code' = 1
            /\ UNCHANGED tool_configs
    /\ UNCHANGED <<envVars, max_results, collectorVars, news_items,
                   summarizerVars, rendererVars>>

\* --dry-run ignored
DryRunRequested_Never == FALSE

\* main, line 87: args.dry_run
DryRunRequested == dry_run

\* main, lines 87-89
DryRunExit ==
    /\ pc = "loaded"
    /\ DryRunRequested
    /\ pc' = "done"
    /\ exit_code' = 0
    /\ UNCHANGED <<envVars, tool_configs, max_results, collectorVars,
                   news_items, summarizerVars, rendererVars>>

\* main, lines 91-98, and collect_all_news, lines 170-171.  Without
\* GEMINI_API_KEY the constructor raises and the process ends with a
\* traceback.
BeginCollect ==
    /\ pc = "loaded"
    /\ ~DryRunRequested
    /\ IF gemini_key
       THEN /\ pc' = "collect"
            /\ max_results' = config_file.max_results_per_tool
            /\ ti' = 1
            /\ all_news' = <<>>
            /\ UNCHANGED exit_code
       ELSE /\ pc' = "done"
            /\ exit_code' = 1
            /\ UNCHANGED <<max_results, ti, all_news>>
    /\ UNCHANGED <<envVars, tool_configs, qi, tool_items, returned, queried,
                   last_response, query_results, news_items, summarizerVars,
                   rendererVars>>

----------------------------------------------------------------------------
(* Initial states *)

InitCollectorVars ==
    /\ ti = 1
    /\ qi = 1
    /\ tool_items = <<>>
    /\ all_news = <<>>
    /\ returned = <<>>
    /\ queried = <<>>
    /\ last_response = NoResponse
    /\ query_results = <<>>

InitSummarizerVars ==
    /\ bi = 0
    /\ processed_items = <<>>
    /\ originals = <<>>
    /\ batches = <<>>
    /\ last_summary = NoSummary

\* The output directory after reports for k earlier days, Day(3) on
PriorDir(k) ==
    UNION { DirAfterReports({}, StrfDate(Day(j)), DefaultLanguages) :
                j \in 3..(k + 2) }

\* The output directory as k earlier generations left it, k drawn from K
InitRendererVars(K) ==
    /\ \E k \in K :
         /\ files = PriorDir(k)
         /\ dir_exists = (k > 0)
         /\ index_written = (k > 0)
         /\ index = IF k > 0 THEN IndexEntries(PriorDir(k)) ELSE <<>>
    /\ news_by_tool = <<>>
    /\ counts = [total_count |-> 0, critical_count |-> 0, tools_count |-> 0]
    /\ n_writes = 0
    /\ runs = 0

----------------------------------------------------------------------------
(* The whole run, on small inputs *)

MainToolConfigLists ==
    { <<>>,
      <<ToolConfig("A", <<"a1">>)>>,
      <<ToolConfig("A", <<"a1">>), ToolConfig("B", <<"b1">>)>> }

MainConfigFiles ==
    { ConfigFile(k, <<>>, MaxResults) :
          k \in {"missing", "malformed", "not_mapping"} }
    \cup { ConfigFile("valid", t, MaxResults) : t \in MainToolConfigLists }

MainResponses ==
    { Response("api_error", TRUE, <<>>),
      Response("json", TRUE, <<>>),
      Response("json", TRUE, <<Entry(TRUE, "T1", "u1", "2024-05-01")>>),
      Response("json", TRUE, <<Entry(TRUE, "T1", "u1", "2024-05-01"),
                               Entry(TRUE, "T2", "u3", "2024-05-01")>>) }

MainSummaries ==
    { Response("api_error", TRUE, <<>>),
      Response("json", TRUE, <<Full(0)>>) }

MainDays == {Day(9), Day(10)}

Init ==
    /\ pc = "start"
    /\ exit_code = -1
    /\ dry_run \in BOOLEAN
    /\ config_file \in MainConfigFiles
    /\ gemini_key \in BOOLEAN
    /\ anthropic_key \in BOOLEAN
    /\ tool_configs = <<>>
    /\ max_results = MaxResults
    /\ InitCollectorVars
    /\ news_items = <<>>
    /\ InitSummarizerVars
    /\ InitRendererVars({0, 1})

Next ==
    \/ LoadConfig
    \/ DryRunExit
    \/ BeginCollect
    \/ CallSearchToolNews
    \/ SearchQuery(MainResponses)
    \/ ReturnToolNews
    \/ ReturnAllNews
    \/ BeginSummarize
    \/ SkipSummarize
    \/ ProcessBatch(MainSummaries)
    \/ ReturnSummarized
    \/ GenerateReport(MainDays)

Spec == Init /\ [][Next]_vars

\* main is sequential code: once collection has returned, lines 99-128 run
\* to the end without waiting on anything when the list is empty, and
\* generate_report runs as soon as summarization has returned.
FairSpec ==
    Init /\ [][Next]_vars
         /\ WF_vars(SkipSummarize) /\ WF_vars(GenerateReport(MainDays))

----------------------------------------------------------------------------
(* The collector alone: collect_all_news on every config list and response *)

InitCollector ==
    /\ pc = "collect"
    /\ exit_code = -1
    /\ dry_run = FALSE
    /\ gemini_key = TRUE
    /\ anthropic_key = TRUE
    /\ tool_configs \in ToolConfigLists
    /\ max_results \in 1..MaxResults
    /\ config_file = ConfigFile("valid", tool_configs, max_results)
    /\ InitCollectorVars
    /\ news_items = <<>>
    /\ InitSummarizerVars
    /\ InitRendererVars({0})

NextCollector ==
    \/ CallSearchToolNews
    \/ SearchQuery(Responses)
    \/ ReturnToolNews
    \/ ReturnAllNews

SpecCollector == InitCollector /\ [][NextCollector]_vars

----------------------------------------------------------------------------
(* The summarizer alone: summarize_news on item lists of every length *)

ItemNames == <<"n01", "n02", "n03", "n04", "n05", "n06", "n07", "n08",
               "n09", "n10", "n11", "n12", "n13", "n14">>

\* The k-th input item: as the collector made it, or carrying enrichment
\* from before.
InputItem(k, enriched) ==
    LET fresh == NewsItem(ItemNames[k], ItemNames[k],
                          IF k % 2 = 1 THEN "A" ELSE "B", "None")
    IN IF enriched
       THEN [fresh EXCEPT !.summary_ja = "old ja", !.summary_en = "old en",
                          !.importance = "low", !.category = "bugfix",
                          !.tags = <<"old">>]
       ELSE fresh

SummarizerInputs ==
    { [k \in 1..n |-> InputItem(k, e)] : n \in 0..MaxItems, e \in BOOLEAN }

InitSummarizer ==
    /\ pc = "summarize"
    /\ exit_code = -1
    /\ dry_run = FALSE
    /\ gemini_key = TRUE
    /\ anthropic_key \in BOOLEAN
    /\ tool_configs = <<>>
    /\ max_results = MaxResults
    /\ config_file = ConfigFile("valid", <<>>, MaxResults)
    /\ InitCollectorVars
    /\ news_items \in SummarizerInputs
    /\ InitSummarizerVars
    /\ InitRendererVars({0})

NextSummarizer ==
    \/ BeginSummarize
    \/ SkipSummarize
    \/ ProcessBatch(Summaries)
    \/ ReturnSummarized

SpecSummarizer == InitSummarizer /\ [][NextSummarizer]_vars

----------------------------------------------------------------------------
(* The renderer alone *)

RenderItem(title, tool_name, importance) ==
    [NewsItem(title, title, tool_name, "None") EXCEPT !.importance = importance]

RenderItems ==
    { RenderItem("a1", "A", "high"), RenderItem("a2", "A", "medium"),
      RenderItem("b1", "B", "critical"), RenderItem("b2", "B", "low"),
      RenderItem("c1", "C", "medium") }

InitRendererCommon ==
    /\ pc = "render"
    /\ exit_code = -1
    /\ dry_run = FALSE
    /\ gemini_key = TRUE
    /\ anthropic_key = TRUE
    /\ tool_configs = <<>>
    /\ max_results = MaxResults
    /\ config_file = ConfigFile("valid", <<>>, MaxResults)
    /\ InitCollectorVars
    /\ InitSummarizerVars

\* generate_report on every item list, into an empty directory
InitGroup ==
    /\ InitRendererCommon
    /\ news_items \in SeqsUpTo(RenderItems, MaxRenderItems)
    /\ InitRendererVars({0})

NextGroup == GenerateReport(MainDays)

SpecGroup == InitGroup /\ [][NextGroup]_vars

\* Days for new reports: before, among and after the earlier ones
NewDays == {Day(1), Day(2), Day(MaxPrior \div 2), Day(MaxPrior + 3),
            Day(MaxPrior + 4)}

\* sequences of generate_report calls on a directory that is empty or holds
\* about IndexLimit reports
InitIndex ==
    /\ InitRendererCommon
    /\ news_items = <<>>
    /\ InitRendererVars({0} \cup (MaxPrior - 3)..MaxPrior)

NextIndex ==
    \/ GenerateReport(NewDays)
    \/ NextReport({<<>>, <<RenderItem("a1", "A", "high")>>})

SpecIndex == InitIndex /\ [][NextIndex]_vars

----------------------------------------------------------------------------
(* Claims about the collector, under SpecCollector *)

RECURSIVE Flatten(_)
Flatten(ss) == IF ss = <<>> THEN <<>> ELSE Head(ss) \o Flatten(Tail(ss))

Last(s) == s[Len(s)]

\* positions of cat whose url occurs at no earlier position
FirstOccurrences(cat) ==
    {i \in DOMAIN cat : \A j \in 1..(i - 1) : cat[j].url # cat[i].url}

\* the n-th smallest member of a set of numbers
NthOf(K, n) == CHOOSE i \in K : Cardinality({j \in K : j < i}) = n - 1

\* a search_tool_news call has just returned
ToolReturned == pc = "collect" /\ returned # <<>>

\* C1: search_tool_news returns exactly the first max_results elements of
\* the order-preserving, first-occurrence-wins de-duplication by url of the
\* concatenation of its query results: the n-th returned item is the item at
\* the n-th position whose url did not occur before, no two returned items
\* share a url, and at most max_results are returned.
C1_DedupFirstWins ==
    ToolReturned =>
        LET cat == Flatten(query_results)
            K == FirstOccurrences(cat)
            out == Last(returned)
        IN /\ Len(out) = Min(max_results, Cardinality(K))
           /\ \A n \in DOMAIN out : out[n] = cat[NthOf(K, n)]
           /\ \A m, n \in DOMAIN out : m # n => out[m].url # out[n].url
           /\ Len(out) <= max_results

\* C1 witness: two queries returned the same url under different titles,
\* and the cap cut the de-duplicated list
C1_Witness ==
    /\ ToolReturned
    /\ Len(query_results) = 2
    /\ \E a \in Range(query_results[1]), b \in Range(query_results[2]) :
          a.url = b.url /\ a.title # b.title
    /\ Cardinality(FirstOccurrences(Flatten(query_results))) > max_results
    /\ Len(Last(returned)) = max_results

\* C2 as stated: no two items of collect_all_news's list share a url, items
\* of different tools included.
C2_UrlsUniqueAcrossTools ==
    \A i, j \in DOMAIN all_news : i # j => all_news[i].url # all_news[j].url

\* C2 amended: the list is the concatenation of the per-tool lists, and no
\* two items of one tool's list share a url.
C2_UrlsUniquePerTool ==
    /\ all_news = Flatten(returned)
    /\ \A t \in DOMAIN returned :
          \A i, j \in DOMAIN returned[t] :
              i # j => returned[t][i].url # returned[t][j].url
    /\ pc = "summarize" => news_items = all_news

\* C2 witness: collection is over and the lists of two tools hold the same
\* url
C2_Witness ==
    /\ pc = "summarize"
    /\ Len(returned) = 2
    /\ \E i \in DOMAIN returned[1], j \in DOMAIN returned[2] :
          returned[1][i].url = returned[2][j].url

\* every query of every config, in config order
RECURSIVE AllQueries(_, _)
AllQueries(configs, t) ==
    IF t > Len(configs) THEN <<>>
    ELSE [k \in DOMAIN configs[t].search_queries |->
             [tool |-> t, query |-> configs[t].search_queries[k]]]
         \o AllQueries(configs, t + 1)

\* C3: a failed query (API error, unparseable response, exception while
\* parsing) contributes no items and does not stop the run: the run stays in
\* collection or passes on to summarization, the requests issued are always
\* a prefix of all queries of all configured tools, in order, and all of
\* them once collection is over; every item a query returned has its url in
\* the tool's list unless the list is at the cap.
C3_FailureIsolated ==
    /\ pc \in {"collect", "search", "summarize"}
    /\ exit_code = -1
    /\ LET all == AllQueries(tool_configs, 1) IN
          /\ Len(queried) <= Len(all)
          /\ \A k \in DOMAIN queried :
                /\ queried[k].tool = all[k].tool
                /\ queried[k].query = all[k].query
          /\ pc = "summarize" => Len(queried) = Len(all)
    /\ (pc = "search" /\ query_results # <<>> /\ Last(queried).failed)
          => Last(query_results) = <<>>
    /\ ToolReturned =>
          \A k \in DOMAIN query_results :
              \A n \in DOMAIN query_results[k] :
                  \/ \E m \in DOMAIN Last(returned) :
                        Last(returned)[m].url = query_results[k][n].url
                  \/ Len(Last(returned)) = max_results

\* C3 witness: collection is over; the first query of the first tool failed,
\* its second query and the next tool's query were still made, and the
\* output holds items of both tools
C3_Witness ==
    /\ pc = "summarize"
    /\ Len(queried) = 3
    /\ queried[1].failed
    /\ queried[2].tool = 1
    /\ ~queried[2].failed
    /\ queried[3].tool = 2
    /\ \E i, j \in DOMAIN news_items :
          news_items[i].tool_name # news_items[j].tool_name

\* the response array's entries that have a title and a url
RECURSIVE WellFormed(_)
WellFormed(entries) ==
    IF entries = <<>> THEN <<>>
    ELSE IF Head(entries).title # "" /\ Head(entries).url # ""
         THEN <<Head(entries)>> \o WellFormed(Tail(entries))
         ELSE WellFormed(Tail(entries))

\* C4: parsing drops exactly the malformed entries: every item has a title
\* and a url, and the items a JSON array yields are its entries that have
\* both, one item each, in response order.
C4_DropsExactlyMalformed ==
    /\ \A i \in DOMAIN all_news :
          all_news[i].title # "" /\ all_news[i].url # ""
    /\ (pc = "search" /\ last_response.kind = "json" /\ last_response.is_list)
          => LET kept == WellFormed(last_response.value)
                 got == Last(query_results)
             IN /\ Len(got) = Len(kept)
                /\ \A n \in DOMAIN got :
                      /\ got[n].title = kept[n].title
                      /\ got[n].url = kept[n].url

----------------------------------------------------------------------------
(* Claims about the summarizer, under SpecSummarizer *)

\* a batch has been processed and its response is last_summary
BatchDone == batches # <<>>

\* positions in news_items of the items of batch b
BatchPositions(b) == (b.start + 1)..(b.start + b.len)

\* the results a JSON response carries
JsonResults(response) ==
    IF response.is_list THEN response.value ELSE <<response.value[1]>>

HasId(r) == "id" \in r.keys

IdsOf(results) == {results[k].id : k \in {j \in DOMAIN results : HasId(results[j])}}

\* the result the merge uses for index idx: the last one carrying that id
MatchedResult(results, idx) ==
    results[CHOOSE k \in DOMAIN results :
                /\ HasId(results[k]) /\ results[k].id = idx
                /\ \A j \in DOMAIN results :
                       (HasId(results[j]) /\ results[j].id = idx) => j <= k]

ValidEnums(r) ==
    /\ "importance" \in r.keys => r.importance \in ImportanceValues
    /\ "category" \in r.keys => r.category \in CategoryValues

\* every result has an id, and every result merged into an item of a batch
\* of len items has enum values of the closed sets
MergeCompletes(results, len) ==
    /\ \A k \in DOMAIN results : HasId(results[k])
    /\ \A idx \in 0..(len - 1) :
          idx \in IdsOf(results) => ValidEnums(MatchedResult(results, idx))

\* after is before with the five enrichment fields taken from r, or their
\* defaults where r lacks the key
EnrichedFrom(before, after, r) ==
    /\ after.summary_ja = (IF "summary_ja" \in r.keys THEN r.summary_ja ELSE "")
    /\ after.summary_en = (IF "summary_en" \in r.keys THEN r.summary_en ELSE "")
    /\ after.importance = (IF "importance" \in r.keys THEN r.importance ELSE "medium")
    /\ after.category = (IF "category" \in r.keys THEN r.category ELSE "other")
    /\ after.tags = (IF "tags" \in r.keys THEN r.tags ELSE <<>>)
    /\ after.title = before.title /\ after.url = before.url
    /\ after.tool_name = before.tool_name /\ after.source = before.source
    /\ after.published_at = before.published_at
    /\ after.content = before.content

\* the items of the last batch whose index is, or is not, an id of the
\* response are enriched from it, or untouched
MergedById(b, results) ==
    \A idx \in 0..(b.len - 1) :
        LET k == b.start + idx + 1 IN
        IF idx \in IdsOf(results)
        THEN EnrichedFrom(originals[k], news_items[k],
                          MatchedResult(results, idx))
        ELSE news_items[k] = originals[k]

C6_BatchFailureIsolated ==
    /\ \A n \in DOMAIN batches :
          batches[n].kind \in {"api_error", "bad_json"}
              => \A k \in BatchPositions(batches[n]) :
                     news_items[k] = originals[k]
    /\ BatchDone => (exit_code = -1 /\ pc \in {"batch", "render"})
    /\ \A n \in DOMAIN batches :
          /\ batches[n].start = (n - 1) * batch_size
          /\ batches[n].len = Min(batch_size, Len(originals) - batches[n].start)
    /\ (pc = "render" /\ BatchDone)
          => Len(batches) * batch_size >= Len(originals)
    /\ (pc = "batch" /\ Len(batches) >= 2 /\ last_summary.kind = "json"
        /\ batches[Len(batches) - 1].kind \in {"api_error", "bad_json"}
        /\ MergeCompletes(JsonResults(last_summary), Last(batches).len))
          => MergedById(Last(batches), JsonResults(last_summary))

\* C6 witness: the first batch's request failed, the second batch was
\* requested and enriched its first item, and the run has reached rendering
\* with the first batch's items as they were
C6_Witness ==
    /\ pc = "render"
    /\ Len(batches) = 2
    /\ batches[1].kind = "api_error"
    /\ batches[2].kind = "json"
    /\ news_items[batch_size + 1].summary_ja = "JA"
    /\ \A k \in 1..batch_size : news_items[k] = originals[k]

\* some result merged into an item of the batch has an importance or a
\* category outside the closed sets
EnumOffence(results, len) ==
    /\ \A k \in DOMAIN results : HasId(results[k])
    /\ \E idx \in 0..(len - 1) :
          idx \in IdsOf(results) /\ ~ValidEnums(MatchedResult(results, idx))

\* C7: when a result of the batch response has an importance or category
\* outside the closed sets, every item of the batch has the field values it
\* had before the batch was processed.
C7_EnumErrorLeavesBatchUntouched ==
    (BatchDone /\ pc = "batch" /\ last_summary.kind = "json"
     /\ EnumOffence(JsonResults(last_summary), Last(batches).len))
        => \A k \in BatchPositions(Last(batches)) :
               news_items[k] = originals[k]

----------------------------------------------------------------------------
(* Claims about the renderer, under SpecGroup and SpecIndex *)

\* positions of the items of a tool
PositionsOf(items, tool_name) ==
    {i \in DOMAIN items : items[i].tool_name = tool_name}

MinOf(K) == CHOOSE i \in K : \A j \in K : i <= j

\* C8: the groups handed to the template partition the items by tool_name:
\* one group per tool_name that occurs, each listing exactly that tool's
\* items in their original relative order, the groups ordered by the first
\* occurrence of their tool_name in the item list.
C8_GroupingStable ==
    pc = "done" =>
        /\ {news_by_tool[g].tool_name : g \in DOMAIN news_by_tool}
             = {news_items[i].tool_name : i \in DOMAIN news_items}
        /\ \A g \in DOMAIN news_by_tool :
              LET P == PositionsOf(news_items, news_by_tool[g].tool_name)
                  group == news_by_tool[g].items
              IN /\ Len(group) = Cardinality(P)
                 /\ \A n \in DOMAIN group : group[n] = news_items[NthOf(P, n)]
        /\ \A g, h \in DOMAIN news_by_tool :
              g < h =>
                  MinOf(PositionsOf(news_items, news_by_tool[g].tool_name))
                    < MinOf(PositionsOf(news_items, news_by_tool[h].tool_name))

\* C8 witness: a list in which a tool's items are apart and the first tool
\* is not the alphabetically first, rendered
C8_Witness ==
    /\ pc = "done"
    /\ Len(news_items) = 4
    /\ news_items[1].tool_name = "B"
    /\ news_items[2].tool_name = "A"
    /\ news_items[3].tool_name = "B"
    /\ news_items[4].tool_name = "C"
    /\ Len(news_by_tool) = 3

\* the days that have a Japanese-language report in the output directory
JaDays ==
    {k \in 1..(MaxPrior + 4) :
         ReportFileName(StrfDate(Day(k)), "ja") \in files}

\* C9: after any sequence of report generations the index lists dates of
\* Japanese-language report files of the output directory, newest first,
\* and exactly the min(IndexLimit, n) most recent of the n there are: the
\* day with r newer days is listed at place r + 1 when r < IndexLimit, and
\* nothing else is listed.
C9_IndexMostRecent ==
    index_written =>
        LET ja == JaDays IN
        /\ Len(index) = Min(IndexLimit, Cardinality(ja))
        /\ \A k \in ja :
              LET newer == Cardinality({j \in ja : DateLess(Day(k), Day(j))})
              IN newer < IndexLimit
                     => /\ newer + 1 \in DOMAIN index
                        /\ index[newer + 1] = StrfDate(Day(k))

\* C9 witness: 45 dated reports after two generations, 30 of them listed
C9_Witness ==
    /\ pc = "done"
    /\ runs = 2
    /\ Cardinality(JaDays) = 45
    /\ Len(index) = IndexLimit

----------------------------------------------------------------------------
(* Claims about main, under Spec *)

\* C10: a run with --dry-run and a valid config never enters collection,
\* summarization or report generation, issues no search or summarization
\* request, writes no report or index file, creates no output directory, and
\* ends with exit code 0.
C10_DryRunWritesNothing ==
    (dry_run /\ config_file.kind = "valid") =>
        /\ pc \in {"start", "loaded", "done"}
        /\ queried = <<>>
        /\ batches = <<>>
        /\ n_writes = 0
        /\ runs = 0
        /\ news_by_tool = <<>>
        /\ dir_exists = (files # {})
        /\ index_written = (files # {})
        /\ pc = "done" => exit_code = 0
        /\ pc # "done" => exit_code = -1

\* C10 witness: a dry run of a config with two tools has ended with code 0,
\* no API key being set and no output directory existing
C10_Witness ==
    /\ dry_run
    /\ pc = "done"
    /\ exit_code = 0
    /\ Len(tool_configs) = 2
    /\ ~gemini_key /\ ~anthropic_key
    /\ ~dir_exists

\* the config file is absent or is not YAML
ConfigError == config_file.kind \in {"missing", "malformed"}

\* C11: when the config file is missing or is malformed YAML, the only step
\* the run takes ends it with exit code 1, and that step starts no
\* collection, summarization or rendering, issues no request, creates no
\* output directory and writes no file.
C11_ConfigErrorAborts ==
    [][ConfigError =>
          /\ pc = "start"
          /\ pc' = "done"
          /\ exit_code' = 1
          /\ UNCHANGED <<tool_configs, collectorVars, news_items,
                         summarizerVars, rendererVars>>]_vars

\* C11 witness: a run without --dry-run, with both API keys set and no
\* output directory, has ended with code 1 on a config file that is not
\* YAML; no request was issued and no directory exists
C11_Witness ==
    /\ config_file.kind = "malformed"
    /\ pc = "done"
    /\ exit_code = 1
    /\ ~dry_run /\ gemini_key /\ anthropic_key
    /\ queried = <<>> /\ batches = <<>>
    /\ ~dir_exists /\ files = {} /\ n_writes = 0

\* collect_all_news has returned an empty list to main
CollectedNothing ==
    /\ config_file.kind = "valid" /\ ~dry_run /\ gemini_key
    /\ pc \in {"summarize", "batch", "render", "done"}
    /\ all_news = <<>>

\* the two report files of some day are in the output directory
ReportsOfSomeDay ==
    \E d \in MainDays :
        \A i \in DOMAIN DefaultLanguages :
            ReportFileName(StrfDate(d), DefaultLanguages[i]) \in files

\* C12: once collection has returned an empty list, no summarization
\* request is ever issued and the run never enters the batch loop; the run
\* goes on to report generation and ends with exit code 0, having written
\* one report file per language and the index, with no group and a total
\* count of 0.
C12_EmptyNewsStillReports ==
    /\ [](CollectedNothing =>
             /\ news_items = <<>>
             /\ batches = <<>>
             /\ last_summary = NoSummary
             /\ pc \in {"summarize", "render", "done"}
             /\ pc # "done" => (exit_code = -1 /\ n_writes = 0)
             /\ pc = "done" =>
                   /\ exit_code = 0
                   /\ runs = 1
                   /\ n_writes = Len(DefaultLanguages) + 1
                   /\ dir_exists /\ index_written
                   /\ ReportsOfSomeDay
                   /\ news_by_tool = <<>>
                   /\ counts.total_count = 0)
    /\ (CollectedNothing ~> (pc = "done" /\ exit_code = 0 /\ runs = 1))

\* C12 witness: two tools were searched and every query failed; without
\* ANTHROPIC_API_KEY and starting from no output directory, the run has
\* ended with code 0 and the directory holds exactly the two reports
C12_Witness ==
    /\ CollectedNothing
    /\ pc = "done" /\ exit_code = 0
    /\ Len(queried) = 2
    /\ \A n \in DOMAIN queried : queried[n].failed
    /\ ~anthropic_key
    /\ Cardinality(files) = Len(DefaultLanguages)
    /\ n_writes = Len(DefaultLanguages) + 1
    /\ index_written

----------------------------------------------------------------------------
(* Batching, under SpecSummarizer *)

\* after is the object before: the fields the summarizer never assigns
SameItem(before, after) ==
    /\ after.title = before.title /\ after.url = before.url
    /\ after.tool_name = before.tool_name /\ after.source = before.source
    /\ after.published_at = before.published_at
    /\ after.content = before.content

\* every enrichment field of after is as it was before or is taken from r
TouchedOnlyBy(before, after, r) ==
    /\ after.summary_ja \in {before.summary_ja, Get(r, "summary_ja", "")}
    /\ after.summary_en \in {before.summary_en, Get(r, "summary_en", "")}
    /\ after.importance \in {before.importance, Get(r, "importance", "medium")}
    /\ after.category \in {before.category, Get(r, "category", "other")}
    /\ after.tags \in {before.tags, Get(r, "tags", <<>>)}

\* the 1-based place in the input of the item numbered j in batch b, b
\* counted from 0
InputPosition(b, j) == batch_size * b + j + 1

====
